---- MODULE Spec2Model ----
(***************************************************************************)
(* LocalAISession (sync/localAIProvider): the conversation session state   *)
(* machine, its asynchronous availability probe and response generations,  *)
(* and the snapshots handed out by getConversationHistory.                 *)
(*                                                                         *)
(* A message is a JavaScript object: it is modelled as a record carrying   *)
(* its identity (ref) next to its role and content, so that two arrays     *)
(* holding the same object are visibly aliased.  A write through one       *)
(* holder is a write to the object, seen by every holder.                  *)
(***************************************************************************)
EXTENDS Integers, Sequences, FiniteSets, TLC

\* ---------------------------------------------------------------- bounds
MaxCalls == 4      \* steps taken by the callers: API calls and snapshot writes
MaxStarts == 2     \* startSession calls
MaxGens == 2       \* response generations started
MaxSnaps == 2      \* snapshots taken with getConversationHistory

\* ---------------------------------------------------------------- values
Undefined == "<undefined>"
Null == 0

Texts == {"hi"}
Updates == {"upd"}
Contexts == {Undefined, "", "ctx"}
ProbeOutcomes == {"ok", "notok", "neterr"}
FetchOutcomes == {"ok", "notok", "neterr"}

\* What response.json() of the chat request can produce: a rejection, a
\* body without message, a message without content, a message with content.
NoData == [kind |-> "reject", hasMessage |-> FALSE, content |-> Undefined]
NoMessage == [kind |-> "json", hasMessage |-> FALSE, content |-> Undefined]
ResponseData ==
    {NoData, NoMessage}
    \cup {[kind |-> "json", hasMessage |-> TRUE, content |-> c] : c \in {Undefined, "reply"}}

\* An optional number is <<>> (undefined) or <<n>>.  Temperatures are
\* counted in tenths: 0.7 is 7.
Some(n) == <<n>>
None == <<>>

\* The config the sessions are constructed with.
mockConfig ==
    [endpoint |-> "http://localhost:11434", model |-> "llama3.2",
     contextSize |-> Some(4096), temperature |-> Some(7), threads |-> None]

VARIABLES
    config,               \* this.config
    status,               \* this.status
    sessionId,            \* this.sessionId
    conversationHistory,  \* this.conversationHistory: array of message objects
    abortController,      \* this.abortController: Null or the controller of a generation
    starts,               \* the startSession calls made so far
    gens,                 \* the generateResponse calls made so far
    aborted,              \* controllers whose signal has been aborted
    ended,                \* number of generations started when endSession last ran
    snaps,                \* arrays returned by getConversationHistory
    calls,                \* steps taken by the callers
    lastOp,               \* the step taken last
    probe,                \* a call of checkLocalAIAvailability or checkLocalAIModel
    stream,               \* a call of streamLocalAIResponse
    call                  \* a call of one of the synchronous functions

vars == <<config, status, sessionId, conversationHistory, abortController, starts, gens,
          aborted, ended, snaps, calls, lastOp, probe, stream, call>>

\* What the session's methods leave alone.
others == <<config, probe, stream, call>>

sessionVars == <<status, sessionId, conversationHistory, abortController>>

\* ---------------------------------------------------------------- helpers
\* JavaScript truthiness of an optional string.
Truthy_defined(s) == s # Undefined
Truthy(s) == s # Undefined /\ s # ""

\* Identities of the message objects some array still holds.
Range(h) == {h[i] : i \in 1..Len(h)}
LiveRefs ==
    {m.ref : m \in Range(conversationHistory)}
    \cup UNION {{m.ref : m \in Range(snaps[s])} : s \in 1..Len(snaps)}

\* A new object: its identity is one no reachable object has.
NewMessage(r, c) ==
    [ref |-> CHOOSE n \in 1..(Cardinality(LiveRefs) + 1) :
                 n \notin LiveRefs /\ \A k \in 1..(n - 1) : k \in LiveRefs,
     role |-> r, content |-> c]

\* The value of a message object, as JSON.stringify or toEqual see it.
Value(m) == [role |-> m.role, content |-> m.content]
Values(h) == [i \in 1..Len(h) |-> Value(h[i])]

\* Array.prototype.push on this.conversationHistory.
Push_unshift(h, m) == <<m>> \o h
Push(h, m) == Append(h, m)

\* response.ok of the probe, or false from the catch block.
checkLocalAIAvailability_catchTrue(outcome) == outcome # "notok"
checkLocalAIAvailability(outcome) == outcome = "ok"

\* The guard of both sends: this.status !== 'connected'.
NotConnected_onlyDisconnected == status = "disconnected"
NotConnected == status # "connected"

\* A generation whose signal was aborted has its rejection queued as a
\* microtask: it runs before any other promise settles.
AbortPending == \E i \in 1..Len(gens) : i \in aborted /\ gens[i].pc \in {"fetching", "reading"}

\* No standalone call is in progress.
Idle == [pc |-> "idle"]

InitSession ==
    /\ status = "disconnected"
    /\ sessionId = Null
    /\ conversationHistory = <<>>
    /\ abortController = Null
    /\ starts = <<>>
    /\ gens = <<>>
    /\ aborted = {}
    /\ ended = 0
    /\ snaps = <<>>
    /\ calls = 0
    /\ lastOp = "new"

Init ==
    /\ config = mockConfig
    /\ InitSession
    /\ probe = Idle
    /\ call = Idle
    /\ stream = Idle

\* ---------------------------------------------------------------- startSession
\* startSession up to its await: the probe's GET is in flight.
StartSession(ctx) ==
    /\ calls < MaxCalls
    /\ Len(starts) < MaxStarts
    /\ sessionId' = 1
    /\ status' = "connecting"
    /\ starts' = Append(starts, [initialContext |-> ctx, pc |-> "probing",
                                 emptyAtCall |-> conversationHistory = <<>>])
    /\ calls' = calls + 1
    /\ lastOp' = "startSession"
    /\ UNCHANGED <<conversationHistory, abortController, gens, aborted, ended, snaps>>
    /\ UNCHANGED others

\* The probe answers and startSession runs to its end.
StartSessionResume(i, outcome) ==
    /\ starts[i].pc = "probing"
    /\ ~AbortPending
    /\ LET isAvailable == checkLocalAIAvailability(outcome)
           ctx == starts[i].initialContext
       IN IF ~isAvailable
          THEN /\ status' = "disconnected"
               /\ starts' = [starts EXCEPT ![i].pc = "rejected"]
               /\ lastOp' = "startSession:rejected"
               /\ UNCHANGED conversationHistory
          ELSE /\ IF Truthy(ctx)
                  THEN /\ conversationHistory' = Push(conversationHistory, NewMessage("system", ctx))
                  ELSE UNCHANGED conversationHistory
               /\ status' = "connected"
               /\ starts' = [starts EXCEPT ![i].pc = "resolved"]
               /\ lastOp' = "startSession:resolved"
    /\ UNCHANGED <<sessionId, abortController, gens, aborted, ended, snaps, calls>>
    /\ UNCHANGED others

\* ---------------------------------------------------------------- endSession
EndSession_keepsHistory ==
    /\ calls < MaxCalls
    /\ IF abortController # Null
       THEN aborted' = aborted \cup {abortController}
       ELSE UNCHANGED aborted
    /\ abortController' = Null
    /\ sessionId' = Null
    /\ status' = "disconnected"
    /\ ended' = Len(gens)
    /\ calls' = calls + 1
    /\ lastOp' = "endSession"
    /\ UNCHANGED <<conversationHistory, starts, gens, snaps>>
    /\ UNCHANGED others

EndSession ==
    /\ calls < MaxCalls
    /\ IF abortController # Null
       THEN aborted' = aborted \cup {abortController}
       ELSE UNCHANGED aborted
    /\ abortController' = Null
    /\ sessionId' = Null
    /\ conversationHistory' = <<>>
    /\ status' = "disconnected"
    /\ ended' = Len(gens)
    /\ calls' = calls + 1
    /\ lastOp' = "endSession"
    /\ UNCHANGED <<starts, gens, snaps>>
    /\ UNCHANGED others

\* ---------------------------------------------------------------- sends
\* The body generateResponse hands to fetch: JSON.stringify is taken when
\* the request is issued.
RequestBody(h) ==
    [model |-> config.model, messages |-> Values(h),
     temperature |-> config.temperature, stream |-> FALSE]

\* sendTextMessage, including the part of generateResponse that runs before
\* its first await.
SendTextMessage(message) ==
    /\ calls < MaxCalls
    /\ calls' = calls + 1
    /\ lastOp' = "sendTextMessage"
    /\ IF NotConnected
       THEN UNCHANGED <<conversationHistory, abortController, gens>>
       ELSE /\ Len(gens) < MaxGens
            /\ conversationHistory' = Push(conversationHistory, NewMessage("user", message))
            /\ abortController' = Len(gens) + 1
            /\ gens' = Append(gens, [pc |-> "fetching",
                                     body |-> RequestBody(conversationHistory')])
    /\ UNCHANGED <<status, sessionId, starts, aborted, ended, snaps>>
    /\ UNCHANGED others

SendContextualUpdate_generates(update) ==
    /\ calls < MaxCalls
    /\ calls' = calls + 1
    /\ lastOp' = "sendContextualUpdate"
    /\ IF NotConnected
       THEN UNCHANGED <<conversationHistory, abortController, gens>>
       ELSE /\ Len(gens) < MaxGens
            /\ conversationHistory' = Push(conversationHistory, NewMessage("system", update))
            /\ abortController' = Len(gens) + 1
            /\ gens' = Append(gens, [pc |-> "fetching",
                                     body |-> RequestBody(conversationHistory')])
    /\ UNCHANGED <<status, sessionId, starts, aborted, ended, snaps>>
    /\ UNCHANGED others

SendContextualUpdate(update) ==
    /\ calls < MaxCalls
    /\ calls' = calls + 1
    /\ lastOp' = "sendContextualUpdate"
    /\ IF NotConnected
       THEN UNCHANGED conversationHistory
       ELSE /\ conversationHistory' = Push(conversationHistory, NewMessage("system", update))
    /\ UNCHANGED <<status, sessionId, abortController, starts, gens, aborted, ended, snaps>>
    /\ UNCHANGED others

\* ---------------------------------------------------------------- generateResponse
\* The finally block, and the promise settling.
Settle_stillPending(i, pc) ==
    /\ gens' = gens
    /\ abortController' = Null
Settle(i, pc) ==
    /\ gens' = [gens EXCEPT ![i].pc = pc]
    /\ abortController' = Null

\* fetch settles: a response (ok or not), or a network error.
FetchSettle(i, outcome) ==
    /\ gens[i].pc = "fetching"
    /\ ~AbortPending
    /\ IF outcome = "ok"
       THEN /\ gens' = [gens EXCEPT ![i].pc = "reading"]
            /\ lastOp' = "generateResponse:response"
            /\ UNCHANGED abortController
       ELSE /\ Settle(i, "rejected")
            /\ lastOp' = "generateResponse:rejected"
    /\ UNCHANGED <<status, sessionId, conversationHistory, starts, aborted, ended, snaps, calls>>
    /\ UNCHANGED others

\* response.json() settles and generateResponse runs to its end.
JsonSettle(i, data) ==
    /\ gens[i].pc = "reading"
    /\ ~AbortPending
    /\ IF data.kind = "json" /\ data.hasMessage
       THEN /\ conversationHistory' = Push(conversationHistory, NewMessage("assistant", data.content))
            /\ Settle(i, "resolved")
            /\ lastOp' = "generateResponse:resolved"
       ELSE /\ Settle(i, "rejected")
            /\ lastOp' = "generateResponse:rejected"
            /\ UNCHANGED conversationHistory
    /\ UNCHANGED <<status, sessionId, starts, aborted, ended, snaps, calls>>
    /\ UNCHANGED others

\* The aborted signal rejects the pending fetch or body read with an
\* AbortError; the catch block logs it and the promise resolves.
GenAbort_rethrows(i) ==
    /\ gens[i].pc \in {"fetching", "reading"}
    /\ i \in aborted
    /\ Settle(i, "rejected")
    /\ lastOp' = "generateResponse:rejected"
    /\ UNCHANGED <<status, sessionId, conversationHistory, starts, aborted, ended, snaps, calls>>
    /\ UNCHANGED others

GenAbort(i) ==
    /\ gens[i].pc \in {"fetching", "reading"}
    /\ i \in aborted
    /\ Settle(i, "aborted")
    /\ lastOp' = "generateResponse:aborted"
    /\ UNCHANGED <<status, sessionId, conversationHistory, starts, aborted, ended, snaps, calls>>
    /\ UNCHANGED others

\* ---------------------------------------------------------------- snapshots
\* getConversationHistory: [...this.conversationHistory], a new array
\* holding the same message objects.
GetConversationHistory ==
    /\ calls < MaxCalls
    /\ Len(snaps) < MaxSnaps
    /\ snaps' = Append(snaps, conversationHistory)
    /\ calls' = calls + 1
    /\ lastOp' = "getConversationHistory"
    /\ UNCHANGED <<sessionVars, starts, gens, aborted, ended>>
    /\ UNCHANGED others

\* A write to field f of the object with identity r reaches every holder.
WriteObject(h, r, f, v) ==
    [i \in 1..Len(h) |-> IF h[i].ref = r THEN [h[i] EXCEPT ![f] = v] ELSE h[i]]

\* The caller pushes a message of its own onto snapshot s.
SnapPush(s) ==
    /\ calls < MaxCalls
    /\ snaps' = [snaps EXCEPT ![s] = Append(@, NewMessage("user", "mine"))]
    /\ calls' = calls + 1
    /\ lastOp' = "snapshot.push"
    /\ UNCHANGED <<sessionVars, starts, gens, aborted, ended>>
    /\ UNCHANGED others

\* The caller pops the last message of snapshot s.
SnapPop(s) ==
    /\ calls < MaxCalls
    /\ Len(snaps[s]) > 0
    /\ snaps' = [snaps EXCEPT ![s] = SubSeq(@, 1, Len(@) - 1)]
    /\ calls' = calls + 1
    /\ lastOp' = "snapshot.pop"
    /\ UNCHANGED <<sessionVars, starts, gens, aborted, ended>>
    /\ UNCHANGED others

\* The caller assigns snapshot[k].role or snapshot[k].content.
SnapWrite(s, k, f, v) ==
    /\ calls < MaxCalls
    /\ k \in 1..Len(snaps[s])
    /\ snaps[s][k][f] # v
    /\ LET r == snaps[s][k].ref
       IN /\ snaps' = [t \in 1..Len(snaps) |-> WriteObject(snaps[t], r, f, v)]
          /\ conversationHistory' = WriteObject(conversationHistory, r, f, v)
    /\ calls' = calls + 1
    /\ lastOp' = "snapshot.write"
    /\ UNCHANGED <<status, sessionId, abortController, starts, gens, aborted, ended>>
    /\ UNCHANGED others

\* ---------------------------------------------------------------- specification
Next ==
    \/ \E ctx \in Contexts : StartSession(ctx)
    \/ \E i \in 1..Len(starts), o \in ProbeOutcomes : StartSessionResume(i, o)
    \/ EndSession
    \/ \E m \in Texts : SendTextMessage(m)
    \/ \E u \in Updates : SendContextualUpdate(u)
    \/ \E i \in 1..Len(gens), o \in FetchOutcomes : FetchSettle(i, o)
    \/ \E i \in 1..Len(gens), d \in ResponseData : JsonSettle(i, d)
    \/ \E i \in 1..Len(gens) : GenAbort(i)
    \/ GetConversationHistory
    \/ \E s \in 1..Len(snaps) : SnapPush(s)
    \/ \E s \in 1..Len(snaps) : SnapPop(s)
    \/ \E s \in 1..Len(snaps), k \in 1..MaxCalls, f \in {"role", "content"} :
          SnapWrite(s, k, f, "edited")

Spec == Init /\ [][Next]_vars

TypeOK ==
    /\ status \in {"disconnected", "connecting", "connected"}
    /\ abortController \in 0..MaxGens
    /\ Len(starts) <= MaxStarts
    /\ Len(gens) <= MaxGens

\* ---------------------------------------------------------------- liveness
\* The backend never answers the probe of call i.  The fetch of
\* checkLocalAIAvailability carries no signal and no timer is set, so
\* nothing else settles it.
ProbeLost(i) ==
    /\ starts[i].pc = "probing"
    /\ starts' = [starts EXCEPT ![i].pc = "unanswered"]
    /\ lastOp' = "probe:unanswered"
    /\ UNCHANGED <<status, sessionId, conversationHistory, abortController, gens, aborted,
                   ended, snaps, calls>>
    /\ UNCHANGED others

NextLive ==
    \/ Next
    \/ \E i \in 1..Len(starts) : ProbeLost(i)

\* The event loop runs every continuation whose promise has settled.
Fairness ==
    /\ WF_vars(\E i \in 1..Len(starts), o \in ProbeOutcomes : StartSessionResume(i, o))
    /\ WF_vars(\E i \in 1..Len(gens), o \in FetchOutcomes : FetchSettle(i, o))
    /\ WF_vars(\E i \in 1..Len(gens), d \in ResponseData : JsonSettle(i, d))
    /\ WF_vars(\E i \in 1..Len(gens) : GenAbort(i))

SpecLive == Init /\ [][NextLive]_vars /\ Fairness

\* ---------------------------------------------------------------- probes
\* checkLocalAIAvailability and checkLocalAIModel (localAIProvider), called
\* on their own.
Endpoints == {"http://localhost:11434", "http://192.168.1.100:1234"}
ModelNames == {"llama3.2", "codellama"}
Statuses == {200, 204, 299, 300, 404, 500}

\* The bodies response.json() of /api/tags can give: not JSON, an object
\* without models, an object with a models array.
TagsBodies ==
    {[json |-> FALSE, hasModels |-> FALSE, names |-> <<>>],
     [json |-> TRUE, hasModels |-> FALSE, names |-> <<>>]}
    \cup {[json |-> TRUE, hasModels |-> TRUE, names |-> n] :
             n \in {<<>>} \cup {<<a>> : a \in ModelNames}
                   \cup {<<a, b>> : a \in ModelNames, b \in ModelNames}}

NetworkError == [kind |-> "neterr", status |-> 0]
Responses == {NetworkError} \cup {[kind |-> "response", status |-> st] : st \in Statuses}

\* Response.ok
ResponseOk_below400(st) == st < 400
ResponseOk(st) == st \in 200..299

Classify(r) ==
    IF r.kind = "neterr" THEN "neterr"
    ELSE IF ResponseOk(r.status) THEN "ok" ELSE "notok"

TagsRequest(endpoint) == [method |-> "GET", endpoint |-> endpoint, path |-> "/api/tags"]

\* The call up to its await of fetch.
ProbeCall(fn, endpoint, model) ==
    /\ probe.pc = "idle"
    /\ probe' = [pc |-> "fetching", fn |-> fn, endpoint |-> endpoint, model |-> model,
                 requests |-> <<TagsRequest(endpoint)>>, response |-> NetworkError,
                 body |-> [json |-> FALSE, hasModels |-> FALSE, names |-> <<>>],
                 result |-> FALSE, threw |-> FALSE]
    /\ UNCHANGED <<config, status, sessionId, conversationHistory, abortController, starts,
                   gens, aborted, ended, snaps, calls, lastOp, stream, call>>

\* fetch settles.  checkLocalAIAvailability returns response.ok, or false
\* from its catch block; checkLocalAIModel returns false unless the
\* response is ok, and then awaits response.json().
ProbeFetchSettle(r) ==
    /\ probe.pc = "fetching"
    /\ IF probe.fn = "checkLocalAIAvailability"
       THEN probe' = [probe EXCEPT !.pc = "returned", !.response = r,
                                   !.result = checkLocalAIAvailability(Classify(r))]
       ELSE IF Classify(r) = "ok"
            THEN probe' = [probe EXCEPT !.pc = "reading", !.response = r]
            ELSE probe' = [probe EXCEPT !.pc = "returned", !.response = r, !.result = FALSE]
    /\ UNCHANGED <<config, status, sessionId, conversationHistory, abortController, starts,
                   gens, aborted, ended, snaps, calls, lastOp, stream, call>>

\* data.models?.map(m => m.name) || []
ModelList_first(body) ==
    IF body.hasModels /\ body.names # <<>> THEN <<Head(body.names)>> ELSE <<>>
ModelList(body) == IF body.hasModels THEN body.names ELSE <<>>

\* response.json() settles in checkLocalAIModel.
ProbeJsonSettle(body) ==
    /\ probe.pc = "reading"
    /\ probe' = [probe EXCEPT !.pc = "returned", !.body = body,
                              !.result = IF body.json
                                         THEN probe.model \in Range(ModelList(body))
                                         ELSE FALSE]
    /\ UNCHANGED <<config, status, sessionId, conversationHistory, abortController, starts,
                   gens, aborted, ended, snaps, calls, lastOp, stream, call>>

NextProbe ==
    \/ \E e \in Endpoints : ProbeCall("checkLocalAIAvailability", e, Undefined)
    \/ \E e \in Endpoints, m \in ModelNames : ProbeCall("checkLocalAIModel", e, m)
    \/ \E r \in Responses : ProbeFetchSettle(r)
    \/ \E b \in TagsBodies : ProbeJsonSettle(b)

SpecProbe == Init /\ [][NextProbe]_vars

\* ---------------------------------------------------------------- config
\* new URL(endpoint) does not throw.
IsURL(e) == e \in Endpoints

\* JavaScript truthiness of an optional number.
NumTruthy(n) == n # None /\ n[1] # 0

\* validateLocalAIConfig (sync/localAI).
validateLocalAIConfig(c) ==
    LET endpointErrors ==
            IF Truthy(c.endpoint) /\ ~IsURL(c.endpoint)
            THEN <<"Invalid endpoint URL">> ELSE <<>>
        contextErrors ==
            IF NumTruthy(c.contextSize) /\ (c.contextSize[1] < 512 \/ c.contextSize[1] > 32768)
            THEN <<"Context size must be between 512 and 32768">> ELSE <<>>
        temperatureErrors ==
            IF NumTruthy(c.temperature) /\ (c.temperature[1] < 0 \/ c.temperature[1] > 20)
            THEN <<"Temperature must be between 0 and 2">> ELSE <<>>
        threadErrors ==
            IF c.threads # None /\ c.threads[1] < 1
            THEN <<"Threads must be at least 1">> ELSE <<>>
        errors == endpointErrors \o contextErrors \o temperatureErrors \o threadErrors
    IN [valid |-> Len(errors) = 0, errors |-> errors]

\* Configs a session can be constructed with: the constructor takes any.
Configs ==
    {mockConfig,
     [mockConfig EXCEPT !.endpoint = "not a url"],
     [mockConfig EXCEPT !.contextSize = Some(100)],
     [mockConfig EXCEPT !.temperature = Some(30)],
     [mockConfig EXCEPT !.threads = Some(0)]}

InitConfig ==
    /\ config \in Configs
    /\ InitSession
    /\ probe = Idle
    /\ call = Idle
    /\ stream = Idle

SpecConfig == InitConfig /\ [][Next]_vars

\* ---------------------------------------------------------------- stream
\* streamLocalAIResponse. The response body is NDJSON: every record is one
\* line of JSON text followed by "\n". The text of a record is two pieces,
\* so that a transport chunk can end inside a record.
MaxRecords == 2

\* {"message":{"content":"Hel"}}, {"message":{"content":"lo"}},
\* {"done":true}, and a line that is not JSON.
RecordKinds == {"Hel", "lo", "done", "bad"}
NL == [k |-> "nl", h |-> 0]
RecordText(k) == <<[k |-> k, h |-> 1], [k |-> k, h |-> 2], NL>>

RECURSIVE Bytes(_)
Bytes(records) ==
    IF records = <<>> THEN <<>>
    ELSE RecordText(Head(records)) \o Bytes(Tail(records))

RecordSeqs == UNION {[1..n -> RecordKinds] : n \in 0..MaxRecords}
MessageLists == {<<>>, <<[role |-> "user", content |-> "hi"]>>}
StreamFetchOutcomes == {"ok", "notok", "nobody", "neterr"}

\* chunk.split('\n').filter(line => line.trim())
RECURSIVE SplitLines(_, _)
SplitLines(chunk, line) ==
    IF chunk = <<>> THEN (IF line = <<>> THEN <<>> ELSE <<line>>)
    ELSE IF Head(chunk) = NL
         THEN (IF line = <<>> THEN <<>> ELSE <<line>>) \o SplitLines(Tail(chunk), <<>>)
         ELSE SplitLines(Tail(chunk), Append(line, Head(chunk)))

\* JSON.parse(line) returns: the line is the whole text of one JSON record.
ParseOK(line) ==
    /\ Len(line) = 2
    /\ line[1].h = 1 /\ line[2].h = 2
    /\ line[1].k = line[2].k
    /\ line[1].k # "bad"

\* data.message?.content
Content(k) == IF k \in {"Hel", "lo"} THEN k ELSE Undefined
LineContent(line) == IF ParseOK(line) THEN Content(line[1].k) ELSE Undefined
Yields(line) == Truthy(LineContent(line))

\* finally { reader.releaseLock() }
Finally_skipped(s) == s
Finally(s) == [s EXCEPT !.lock = "released"]

\* The for loop over the lines, up to its next yield or, with no line left
\* that yields, back to reader.read().
ForLines_throwsOnBadLine(s) ==
    LET ys == {j \in 1..Len(s.lines) : Yields(s.lines[j])}
        bad == {j \in 1..Len(s.lines) : ~ParseOK(s.lines[j])}
        j == CHOOSE x \in ys \cup bad : \A y \in ys \cup bad : x <= y
    IN IF ys \cup bad = {} THEN [s EXCEPT !.pc = "reading", !.lines = <<>>]
       ELSE IF j \in bad
            THEN Finally([s EXCEPT !.pc = "threw", !.error = "parse", !.lines = <<>>])
            ELSE [s EXCEPT !.pc = "yielded",
                           !.out = Append(s.out, LineContent(s.lines[j])),
                           !.lines = SubSeq(s.lines, j + 1, Len(s.lines))]
ForLines(s) ==
    LET ys == {j \in 1..Len(s.lines) : Yields(s.lines[j])}
        j == CHOOSE x \in ys : \A y \in ys : x <= y
    IN IF ys = {} THEN [s EXCEPT !.pc = "reading", !.lines = <<>>]
       ELSE [s EXCEPT !.pc = "yielded",
                      !.out = Append(s.out, LineContent(s.lines[j])),
                      !.lines = SubSeq(s.lines, j + 1, Len(s.lines))]

notStream == <<config, status, sessionId, conversationHistory, abortController, starts,
               gens, aborted, ended, snaps, calls, lastOp, probe, call>>

\* The generator object, before the consumer's first next().
Created ==
    [pc |-> "created", request |-> Null, records |-> <<>>, rest |-> <<>>,
     seen |-> <<>>, lines |-> <<>>, out |-> <<>>, lock |-> "none", error |-> "none"]

InitStream ==
    /\ config = mockConfig
    /\ InitSession
    /\ probe = Idle
    /\ call = Idle
    /\ stream = Created

\* The consumer's first next(): the code up to `await fetch`.
StreamStart(messages) ==
    /\ stream.pc = "created"
    /\ stream' = [stream EXCEPT
                    !.pc = "fetching",
                    !.request = [model |-> config.model, messages |-> messages,
                                 temperature |-> config.temperature, stream |-> TRUE]]
    /\ UNCHANGED notStream

\* fetch settles: the two checks on the response and getReader().
StreamFetchSettle(outcome, records) ==
    /\ stream.pc = "fetching"
    /\ outcome # "ok" => records = <<>>
    /\ stream' =
         IF outcome = "ok"
         THEN [stream EXCEPT !.pc = "reading", !.records = records,
                             !.rest = Bytes(records), !.lock = "held"]
         ELSE [stream EXCEPT !.pc = "threw", !.error = outcome]
    /\ UNCHANGED notStream

\* reader.read() delivers the next n pieces of the body as one chunk.
StreamRead(n) ==
    /\ stream.pc = "reading"
    /\ n \in 1..Len(stream.rest)
    /\ LET chunk == SubSeq(stream.rest, 1, n)
           lines == SplitLines(chunk, <<>>)
       IN stream' = ForLines([stream EXCEPT
                                !.rest = SubSeq(stream.rest, n + 1, Len(stream.rest)),
                                !.seen = stream.seen \o lines,
                                !.lines = lines])
    /\ UNCHANGED notStream

\* reader.read() reports done: break, then finally.
StreamClose ==
    /\ stream.pc = "reading"
    /\ stream.rest = <<>>
    /\ stream' = Finally([stream EXCEPT !.pc = "done"])
    /\ UNCHANGED notStream

\* reader.read() rejects: finally, and the error leaves the generator.
StreamReadError ==
    /\ stream.pc = "reading"
    /\ stream' = Finally([stream EXCEPT !.pc = "threw", !.error = "read"])
    /\ UNCHANGED notStream

\* The consumer's next() after a yield.
StreamNext ==
    /\ stream.pc = "yielded"
    /\ stream' = ForLines(stream)
    /\ UNCHANGED notStream

\* The consumer stops early (break in for await, i.e. return()): finally.
StreamReturn ==
    /\ stream.pc = "yielded"
    /\ stream' = Finally([stream EXCEPT !.pc = "returned", !.lines = <<>>])
    /\ UNCHANGED notStream

NextStream ==
    \/ \E messages \in MessageLists : StreamStart(messages)
    \/ \E outcome \in StreamFetchOutcomes, records \in RecordSeqs :
         StreamFetchSettle(outcome, records)
    \/ \E n \in 1..(3 * MaxRecords) : StreamRead(n)
    \/ StreamClose
    \/ StreamReadError
    \/ StreamNext
    \/ StreamReturn

SpecStream == InitStream /\ [][NextStream]_vars

StreamTypeOK ==
    /\ stream.pc \in {"created", "fetching", "reading", "yielded", "done", "threw", "returned"}
    /\ stream.lock \in {"none", "held", "released"}
    /\ stream.error \in {"none", "notok", "nobody", "neterr", "read"}
    /\ Len(stream.records) <= MaxRecords

\* ---------------------------------------------------------------- validators
\* sources/localai/config.ts.  An optional number is None, Some(n) or NaN;
\* temperatures are in tenths.
NaN == <<0, 0>>
IsNaN(n) == Len(n) = 2
\* n < m and n > m of JavaScript for a number n that is present.
Lt(n, m) == ~IsNaN(n) /\ n[1] < m
Gt(n, m) == ~IsNaN(n) /\ n[1] > m

AIProviderTypes == {"ollama", "lmstudio", "localai", "openai", "custom"}

DEFAULT_LOCAL_AI_CONFIG ==
    [provider |-> "ollama", timeout |-> Some(30000), maxRetries |-> Some(3),
     temperature |-> Some(7), maxTokens |-> Some(2048), contextSize |-> Some(4096),
     debug |-> FALSE]

\* config.<kind>?.<field>; the url field of openai is baseUrl.
SubField_ollamaOnly(c, kind, field) ==
    IF c.ollama = None THEN Undefined ELSE c.ollama[1][field]
SubField(c, kind, field) ==
    IF c[kind] = None THEN Undefined ELSE c[kind][1][field]

\* The switch over config.provider.
RequiredErrors(c) ==
    LET noUrl(kind) == ~Truthy(SubField(c, kind, "url"))
        noModel(kind) == ~Truthy(SubField(c, kind, "model"))
        case(kind, urlError, modelError) ==
            (IF noUrl(kind) THEN <<urlError>> ELSE <<>>)
            \o (IF noModel(kind) THEN <<modelError>> ELSE <<>>)
    IN CASE c.provider = "ollama" ->
              case("ollama", "Ollama URL is required", "Ollama model is required")
         [] c.provider = "lmstudio" ->
              case("lmstudio", "LM Studio URL is required", "LM Studio model is required")
         [] c.provider = "localai" ->
              case("localai", "LocalAI URL is required", "LocalAI model is required")
         [] c.provider = "openai" ->
              case("openai", "OpenAI base URL is required", "OpenAI model is required")
         [] c.provider = "custom" ->
              case("custom", "Custom URL is required", "Custom model is required")
         [] OTHER -> <<>>

\* validateLocalAIConfig of sources/localai/config.ts.
validateLocalAIConfigSources(c) ==
    LET providerErrors ==
            IF ~Truthy(c.provider) THEN <<"Provider type is required">> ELSE <<>>
        timeoutErrors ==
            IF c.timeout # None /\ (Lt(c.timeout, 1000) \/ Gt(c.timeout, 600000))
            THEN <<"Timeout must be between 1000ms and 600000ms">> ELSE <<>>
        temperatureErrors ==
            IF c.temperature # None /\ (Lt(c.temperature, 0) \/ Gt(c.temperature, 10))
            THEN <<"Temperature must be between 0.0 and 1.0">> ELSE <<>>
        maxTokensErrors ==
            IF c.maxTokens # None /\ (Lt(c.maxTokens, 1) \/ Gt(c.maxTokens, 100000))
            THEN <<"Max tokens must be between 1 and 100000">> ELSE <<>>
        errors == providerErrors \o RequiredErrors(c) \o timeoutErrors
                  \o temperatureErrors \o maxTokensErrors
    IN [valid |-> Len(errors) = 0, errors |-> errors]

\* parseInt and parseFloat (in tenths) of the environment strings used here.
parseInt(str) ==
    CASE str = "5000" -> Some(5000)
      [] str = "60s" -> Some(60)
      [] str = "4096" -> Some(4096)
      [] str = "8192" -> Some(8192)
      [] OTHER -> NaN
parseFloat(str) ==
    CASE str = "0.2" -> Some(2)
      [] str = "1.5" -> Some(15)
      [] OTHER -> NaN

\* a || b on an optional string.
Or(a, b) == IF Truthy(a) THEN a ELSE b

\* loadLocalAIConfigFromEnv: env is process.env.EXPO_PUBLIC_LOCAL_AI_*.
loadLocalAIConfigFromEnv(env) ==
    LET provider == Or(env.TYPE, "ollama")
        url == Or(env.URL, "http://localhost:11434")
        model == Or(env.MODEL, "codellama:13b")
        sub(kind) ==
            IF kind # provider THEN None
            ELSE Some([url |-> url, model |-> model,
                       apiKey |-> IF kind = "ollama" THEN Undefined ELSE env.API_KEY])
    IN [provider |-> provider,
        ollama |-> sub("ollama"), lmstudio |-> sub("lmstudio"), localai |-> sub("localai"),
        openai |-> sub("openai"), custom |-> sub("custom"),
        timeout |-> IF Truthy(env.TIMEOUT) THEN parseInt(env.TIMEOUT)
                    ELSE DEFAULT_LOCAL_AI_CONFIG.timeout,
        temperature |-> IF Truthy(env.TEMPERATURE) THEN parseFloat(env.TEMPERATURE)
                        ELSE DEFAULT_LOCAL_AI_CONFIG.temperature,
        maxTokens |-> IF Truthy(env.MAX_TOKENS) THEN parseInt(env.MAX_TOKENS)
                      ELSE DEFAULT_LOCAL_AI_CONFIG.maxTokens,
        contextSize |-> IF Truthy(env.CONTEXT_SIZE) THEN parseInt(env.CONTEXT_SIZE)
                        ELSE DEFAULT_LOCAL_AI_CONFIG.contextSize,
        debug |-> env.DEBUG = "1"]

\* Inputs of the validator of sources/localai/config.ts: the selected
\* provider's sub-config and the sub-config all other providers have.
SubConfigs ==
    {None} \cup {Some([url |-> u, model |-> m, apiKey |-> Undefined]) :
                    u \in {Undefined, "", "http://localhost:11434"},
                    m \in {Undefined, "", "codellama:13b"}}
OtherSubConfigs ==
    {None,
     Some([url |-> "", model |-> Undefined, apiKey |-> Undefined]),
     Some([url |-> "http://localhost:1234/v1", model |-> "mistral", apiKey |-> Undefined])}
ProviderValues == AIProviderTypes \cup {Undefined, "", "bogus"}
Timeouts == {None, Some(999), Some(1000), Some(600000), Some(600001), NaN}
Temperatures == {None, Some(-1), Some(0), Some(10), Some(11), Some(20), Some(21)}
MaxTokens == {None, Some(0), Some(1), Some(100000), Some(100001)}

SourcesConfig(p, sel, oth, timeout, temperature, maxTokens) ==
    LET sub(kind) == IF kind = p THEN sel ELSE oth
    IN [provider |-> p,
        ollama |-> sub("ollama"), lmstudio |-> sub("lmstudio"), localai |-> sub("localai"),
        openai |-> sub("openai"), custom |-> sub("custom"),
        timeout |-> timeout, temperature |-> temperature, maxTokens |-> maxTokens,
        contextSize |-> Some(4096), debug |-> FALSE]

Envs ==
    [TYPE : ProviderValues,
     URL : {Undefined, "", "http://host:1234"},
     MODEL : {Undefined, "", "mistral"},
     API_KEY : {Undefined, "key"},
     TIMEOUT : {Undefined, "", "60s", "abc"},
     TEMPERATURE : {Undefined, "0.2", "1.5"},
     MAX_TOKENS : {Undefined, "4096"},
     CONTEXT_SIZE : {Undefined, "8192"},
     DEBUG : {Undefined, "1"}]

\* Inputs of the validator of sync/localAI (a Partial<LocalAIConfig>).
SyncConfigs ==
    [endpoint : {Undefined, "", "http://localhost:11434", "not a url"},
     model : {"llama3.2"},
     contextSize : {None, Some(-1), Some(0), Some(511), Some(512), Some(32768), Some(32769)},
     temperature : {None, Some(-5), Some(0), Some(7), Some(20), Some(25)},
     threads : {None, Some(-1), Some(0), Some(1), Some(4)}]

notCall == <<config, status, sessionId, conversationHistory, abortController, starts,
             gens, aborted, ended, snaps, calls, lastOp, probe, stream>>

\* A call of a synchronous function returns in one step.
Returned(fn, arg, result) == [pc |-> "returned", fn |-> fn, arg |-> arg, result |-> result]

\* A caller validates a config with sources/localai/config.ts.
ValidateSources ==
    /\ call.pc = "idle"
    /\ \E p \in ProviderValues, sel \in SubConfigs, oth \in OtherSubConfigs,
          t \in Timeouts, temp \in Temperatures, mt \in MaxTokens :
         LET c == SourcesConfig(p, sel, oth, t, temp, mt)
         IN call' = Returned("config.validateLocalAIConfig", c,
                             validateLocalAIConfigSources(c))
    /\ UNCHANGED notCall

\* A caller validates a config with sync/localAI.
ValidateSync ==
    /\ call.pc = "idle"
    /\ \E c \in SyncConfigs :
         call' = Returned("localAI.validateLocalAIConfig", c, validateLocalAIConfig(c))
    /\ UNCHANGED notCall

\* A caller loads the config from the environment.
LoadFromEnv ==
    /\ call.pc = "idle"
    /\ \E env \in Envs :
         call' = Returned("loadLocalAIConfigFromEnv", env, loadLocalAIConfigFromEnv(env))
    /\ UNCHANGED notCall

NextValidate ==
    \/ ValidateSources
    \/ ValidateSync
    \/ LoadFromEnv

SpecValidate == Init /\ [][NextValidate]_vars

\* ---------------------------------------------------------------- catalog
\* Model sizes and memory are counted in units of 1/70 GiB, so that 0.7
\* times a memory and every threshold below are whole numbers of tenths
\* of a unit.  GiB(n10) is n10 tenths of a GiB, in units.
MaxMemory == 5700
GiB(n10) == 7 * n10
Memories == 0..MaxMemory

\* SUPPORTED_MODELS[modelName].size; a name Object.prototype defines gives
\* an object without size, any other name gives undefined.
SUPPORTED_MODELS ==
    [m \in {"llama3.2", "llama3.2:70b", "codellama", "mistral", "phi3"} |->
        [size |-> CASE m = "llama3.2" -> Some(GiB(38))
                    [] m = "llama3.2:70b" -> Some(GiB(400))
                    [] m = "codellama" -> Some(GiB(38))
                    [] m = "mistral" -> Some(GiB(41))
                    [] m = "phi3" -> Some(GiB(23))]]
InheritedKeys == {"constructor", "toString"}
ModelIds == DOMAIN SUPPORTED_MODELS \cup InheritedKeys \cup {"unknown-model"}
Lookup(modelName) ==
    IF modelName \in DOMAIN SUPPORTED_MODELS THEN Some(SUPPORTED_MODELS[modelName])
    ELSE IF modelName \in InheritedKeys THEN Some([size |-> None])
    ELSE None

\* availableMemory * 0.7, in tenths of a unit.
Times07(availableMemory) == 7 * availableMemory
\* a quantity in units, in tenths of a unit.
Tenths(x) == 10 * x

\* a <= b and a >= b.
AtMost_strict(a, b) == a < b
AtMost(a, b) == a <= b
AtLeast_strict(a, b) == a > b
AtLeast(a, b) == a >= b

isModelSuitable(modelName, availableMemory) ==
    LET model == Lookup(modelName)
    IN IF model = None THEN FALSE
       ELSE /\ model[1].size # None
            /\ AtMost(Tenths(model[1].size[1]), Times07(availableMemory))

getRecommendedModel(availableMemory) ==
    LET safeMemory == Times07(availableMemory)
    IN IF AtLeast(safeMemory, Tenths(GiB(500))) THEN "llama3.2:70b"
       ELSE IF AtLeast(safeMemory, Tenths(GiB(80))) THEN "llama3.2"
       ELSE IF AtLeast(safeMemory, Tenths(GiB(40))) THEN "mistral"
       ELSE "phi3"

\* formatModelSize.  Byte counts are in quarters of a MiB here: 4 to the
\* MiB, 4096 to the GiB.  The string is its number and its suffix.
MaxQuarters == 8400
ByteCounts == 0..MaxQuarters \cup {409600}

\* Math.round(num / den) for num >= 0.
MathRound_floor(num, den) == num \div den
MathRound(num, den) == (2 * num + den) \div (2 * den)

\* (num / den).toFixed(1): the nearest tenth, the larger of two nearest.
ToFixed1(num, den) ==
    LET t == (20 * num + den) \div (2 * den)
    IN [whole |-> t \div 10, frac |-> Some(t % 10)]

formatModelSize(bytes) ==
    IF bytes < 4096
    THEN [whole |-> MathRound(bytes, 4), frac |-> None, unit |-> "MB"]
    ELSE [whole |-> ToFixed1(bytes, 4096).whole, frac |-> ToFixed1(bytes, 4096).frac,
          unit |-> "GB"]

IsModelSuitable ==
    /\ call.pc = "idle"
    /\ \E modelName \in ModelIds, availableMemory \in Memories :
         call' = Returned("isModelSuitable",
                          [modelName |-> modelName, availableMemory |-> availableMemory],
                          isModelSuitable(modelName, availableMemory))
    /\ UNCHANGED notCall

GetRecommendedModel ==
    /\ call.pc = "idle"
    /\ \E availableMemory \in Memories :
         call' = Returned("getRecommendedModel", availableMemory,
                          getRecommendedModel(availableMemory))
    /\ UNCHANGED notCall

FormatModelSize ==
    /\ call.pc = "idle"
    /\ \E bytes \in ByteCounts :
         call' = Returned("formatModelSize", bytes, formatModelSize(bytes))
    /\ UNCHANGED notCall

NextCatalog ==
    \/ IsModelSuitable
    \/ GetRecommendedModel
    \/ FormatModelSize

SpecCatalog == Init /\ [][NextCatalog]_vars

\* ---------------------------------------------------------------- properties
Msg(r, c) == [role |-> r, content |-> c]
History == Values(conversationHistory)
InFlight == {i \in 1..Len(gens) : gens[i].pc \in {"fetching", "reading"}}
\* Generation i appends its assistant message in this step.
Appends(i) == gens[i].pc = "reading" /\ gens'[i].pc = "resolved"

\* C1: no generation started before endSession appends an assistant
\* message once endSession has completed.
C1_EndSessionCancelsEveryGeneration ==
    [][\A i \in 1..Len(gens) : i <= ended => ~Appends(i)]_vars

\* C2: in the state endSession leaves, the status is 'disconnected' and
\* the history is empty.
C2_EndSessionClears ==
    lastOp = "endSession" => status = "disconnected" /\ History = <<>>

\* endSession has just run on a session that had accepted a message.
C2_Witness ==
    lastOp = "endSession" /\ calls = 3 /\ ended = 1

\* C3: at most one response generation is in flight.
C3_AtMostOneInFlight ==
    Cardinality(InFlight) <= 1

\* C4: when the probe reports the backend unavailable, startSession
\* rejects, the status becomes 'disconnected' and the history is unchanged.
C4_UnavailableFails ==
    [][\A i \in 1..Len(starts), o \in {"notok", "neterr"} :
          StartSessionResume(i, o) =>
              /\ starts'[i].pc = "rejected"
              /\ status' = "disconnected"
              /\ conversationHistory' = conversationHistory]_vars

\* A startSession with an initialContext has failed and stored nothing.
C4_Witness ==
    /\ lastOp = "startSession:rejected"
    /\ status = "disconnected"
    /\ History = <<>>
    /\ \E i \in 1..Len(starts) :
          starts[i].pc = "rejected" /\ starts[i].initialContext = "ctx"

\* C5 as stated: a startSession called on an empty history against a
\* reachable backend sets 'connecting', then 'connected', and leaves the
\* history <<system initialContext>> when initialContext is given and
\* empty when it is not (an empty string read as not given).
C5_Original ==
    [][/\ \A ctx \in Contexts : StartSession(ctx) => status' = "connecting"
       /\ \A i \in 1..Len(starts) :
             (StartSessionResume(i, "ok") /\ starts[i].emptyAtCall) =>
                 /\ status' = "connected"
                 /\ History' = IF starts[i].initialContext \notin {Undefined, ""}
                               THEN <<Msg("system", starts[i].initialContext)>>
                               ELSE <<>>]_vars

\* C5 amended: startSession sets 'connecting' when called and 'connected'
\* when the probe answers ok; at that step it appends one system message
\* with initialContext to the history as it then stands if initialContext
\* is a non-empty string, and leaves the history unchanged otherwise.
C5_StartSessionSeeds ==
    [][/\ \A ctx \in Contexts : StartSession(ctx) => status' = "connecting"
       /\ \A i \in 1..Len(starts) :
             StartSessionResume(i, "ok") =>
                 /\ status' = "connected"
                 /\ History' = IF starts[i].initialContext \notin {Undefined, ""}
                               THEN Append(History, Msg("system", starts[i].initialContext))
                               ELSE History]_vars

\* A startSession called on an empty history has connected and the
\* history is its seed message alone.
C5_Witness ==
    /\ lastOp = "startSession:resolved"
    /\ status = "connected"
    /\ History = <<Msg("system", "ctx")>>
    /\ \E i \in 1..Len(starts) : starts[i].pc = "resolved" /\ starts[i].emptyAtCall

\* C6: a send made while the status is not 'connected' changes neither
\* the history nor the status and issues no chat request.
C6_SendsIgnoredUnlessConnected ==
    [][\A m \in Texts, u \in Updates :
          ((SendTextMessage(m) \/ SendContextualUpdate(u)) /\ status # "connected") =>
              UNCHANGED <<conversationHistory, status, gens, abortController>>]_vars

\* A message was sent while the probe was pending.
C6_Witness ==
    /\ lastOp = "sendTextMessage"
    /\ status = "connecting"
    /\ \E i \in 1..Len(starts) : starts[i].pc = "probing"

\* C7: a sendTextMessage(m) made while connected returns with the history
\* extended by the one message <<user m>> and with its generation still
\* waiting for the backend.
C7_SendAppendsUserOnly ==
    [][\A m \in Texts :
          (SendTextMessage(m) /\ status = "connected") =>
              /\ History' = Append(History, Msg("user", m))
              /\ Len(gens') = Len(gens) + 1
              /\ gens'[Len(gens')].pc = "fetching"]_vars

\* A message was sent on a seeded session; its reply is still to come.
C7_Witness ==
    /\ lastOp = "sendTextMessage"
    /\ History = <<Msg("system", "ctx"), Msg("user", "hi")>>
    /\ gens[Len(gens)].pc = "fetching"

\* C8: chat requests are issued by accepted sendTextMessage calls only,
\* one for each; a request that succeeds appends the one message
\* <<assistant response.message.content>> and its generation is then over.
C8_OneRequestOneReply ==
    [][/\ Len(gens') # Len(gens) =>
             /\ Len(gens') = Len(gens) + 1
             /\ status = "connected"
             /\ \E m \in Texts : SendTextMessage(m)
       /\ \A m \in Texts : (SendTextMessage(m) /\ status = "connected") =>
             Len(gens') = Len(gens) + 1
       /\ \A i \in 1..Len(gens) :
             /\ \A c \in {"reply"} :
                   JsonSettle(i, [kind |-> "json", hasMessage |-> TRUE, content |-> c]) =>
                       /\ History' = Append(History, Msg("assistant", c))
                       /\ gens'[i].pc = "resolved"
             /\ gens[i].pc \in {"resolved", "rejected", "aborted"} =>
                   gens'[i] = gens[i]]_vars

\* A reply has arrived and is the last message of the history.
C8_Witness ==
    /\ lastOp = "generateResponse:resolved"
    /\ Len(History) >= 2
    /\ History[Len(History)] = Msg("assistant", "reply")
    /\ History[Len(History) - 1] = Msg("user", "hi")

\* C9: a sendContextualUpdate(u) made while connected appends the one
\* message <<system u>> and starts no generation.
C9_ContextUpdateAppendsOnly ==
    [][\A u \in Updates :
          (SendContextualUpdate(u) /\ status = "connected") =>
              /\ History' = Append(History, Msg("system", u))
              /\ UNCHANGED <<gens, abortController, aborted>>]_vars

\* A contextual update was accepted while a generation was in flight.
C9_Witness ==
    /\ lastOp = "sendContextualUpdate"
    /\ status = "connected"
    /\ History[Len(History)] = Msg("system", "upd")
    /\ InFlight # {}

\* C10: a snapshot equals the history it was taken from, and no write to
\* a snapshot (push, pop, or assignment to a message's role or content)
\* changes the session's history or another snapshot.
C10_DefensiveCopy ==
    [][/\ GetConversationHistory => Values(snaps'[Len(snaps')]) = History
       /\ \A s \in 1..Len(snaps) :
             (\/ SnapPush(s)
              \/ SnapPop(s)
              \/ \E k \in 1..Len(snaps[s]), f \in {"role", "content"} : SnapWrite(s, k, f, "edited")) =>
                 /\ History' = History
                 /\ \A t \in 1..Len(snaps) : t # s => Values(snaps'[t]) = Values(snaps[t])]_vars

\* C11: a generation that fails without being cancelled (network error,
\* non-ok status, a body that is not JSON, a body without message or
\* without message content) leaves the history as it was.
C11_FailureAppendsNothing ==
    [][\A i \in 1..Len(gens) :
          /\ \A o \in {"notok", "neterr"} : FetchSettle(i, o) => History' = History
          /\ \A d \in ResponseData :
                (JsonSettle(i, d) /\ (d.kind = "reject" \/ ~d.hasMessage \/ d.content = Undefined)) =>
                    History' = History]_vars

\* C12: a generation whose signal was aborted ends by resolving, without
\* appending a message; it never rejects and never appends.
C12_AbortIsNormalEnd ==
    [][\A i \in 1..Len(gens) :
          /\ GenAbort(i) => (History' = History /\ gens'[i].pc = "aborted")
          /\ (i \in aborted /\ gens[i].pc \in {"fetching", "reading"}) =>
                (gens'[i].pc \in {gens[i].pc, "aborted"} /\ ~Appends(i))]_vars

\* endSession aborted a generation in flight and the generation has ended.
C12_Witness ==
    /\ lastOp = "generateResponse:aborted"
    /\ \E i \in 1..Len(gens) : gens[i].pc = "aborted" /\ i \in aborted /\ i <= ended
    /\ History = <<>>

\* C13: checkLocalAIAvailability issues one GET of /api/tags on the
\* endpoint, never throws, and returns true exactly when that request got
\* a response with a status in 200..299.
C13_ProbeTrueIffOk ==
    (probe.pc # "idle" /\ probe.fn = "checkLocalAIAvailability") =>
        /\ probe.requests = <<[method |-> "GET", endpoint |-> probe.endpoint, path |-> "/api/tags"]>>
        /\ ~probe.threw
        /\ probe.pc \in {"fetching", "returned"}
        /\ probe.pc = "returned" =>
              (probe.result <=> (probe.response.kind = "response"
                                 /\ probe.response.status >= 200
                                 /\ probe.response.status <= 299))

\* The probe returned false after a network error.
C13_Witness ==
    /\ probe.pc = "returned"
    /\ probe.fn = "checkLocalAIAvailability"
    /\ probe.response = NetworkError
    /\ probe.result = FALSE

\* startSession call i has not settled.
Pending(i) == i <= Len(starts) /\ starts[i].pc \in {"probing", "unanswered"}

\* C14: every startSession call eventually completes, also when the
\* backend never answers its probe.
C14_StartSessionCompletes ==
    \A i \in 1..MaxStarts : Pending(i) ~> ~Pending(i)

\* C15: a session whose config fails validateLocalAIConfig sends no probe
\* and no chat request.
C15_InvalidConfigSendsNothing ==
    ~validateLocalAIConfig(config).valid => (Len(starts) = 0 /\ Len(gens) = 0)

\* Fragments of a list of lines, in order.
RECURSIVE Fragments(_)
Fragments(lines) ==
    IF lines = <<>> THEN <<>>
    ELSE (IF Yields(Head(lines)) THEN <<LineContent(Head(lines))>> ELSE <<>>)
         \o Fragments(Tail(lines))

\* message.content values of a list of records, in order.
RECURSIVE Contents(_)
Contents(records) ==
    IF records = <<>> THEN <<>>
    ELSE (IF Truthy(Content(Head(records))) THEN <<Content(Head(records))>> ELSE <<>>)
         \o Contents(Tail(records))

\* C16: when the stream has ended normally, the fragments yielded are the
\* message.content values of the records of the response, in order,
\* however the body was divided into chunks.
C16_FragmentsAreRecordContents ==
    stream.pc = "done" => stream.out = Contents(stream.records)

\* C17: a line that fails to parse is skipped: the fragments yielded plus
\* those of the lines still to be processed are the fragments of all lines
\* delivered so far, and the generator never throws for a parse failure.
C17_MalformedLineSkipped ==
    /\ stream.error # "parse"
    /\ stream.pc \in {"reading", "yielded", "done"} =>
         stream.out \o Fragments(stream.lines) = Fragments(stream.seen)
C17_Witness ==
    /\ stream.pc = "done"
    /\ \E j, k \in 1..Len(stream.seen) :
         j < k /\ ~ParseOK(stream.seen[j]) /\ Yields(stream.seen[k])
    /\ stream.out # <<>>

\* A parsed record with done: true came before the line processed last.
DoneReadBeforeLast ==
    \E j \in 1..(Len(stream.seen) - Len(stream.lines) - 1) :
        ParseOK(stream.seen[j]) /\ stream.seen[j][1].k = "done"

\* C18: no fragment is yielded once a record with done: true has been read.
C18_NoFragmentAfterDone ==
    stream.pc = "yielded" => ~DoneReadBeforeLast

RECURSIVE Concat(_)
Concat(fragments) ==
    IF fragments = <<>> THEN ""
    ELSE IF Len(fragments) = 1 THEN Head(fragments)
    ELSE IF fragments = <<"Hel", "lo">> THEN "Hello"
    ELSE <<Head(fragments), Concat(Tail(fragments))>>

\* C20: once the fragment sequence has ended, the session's history ends
\* with one assistant message whose content is the concatenation of the
\* fragments.
C20_StreamAppendsOneAssistantMessage ==
    stream.pc = "done" /\ stream.out # <<>> =>
        /\ Len(History) = Len(stream.request.messages) + 1
        /\ History[Len(History)] = Msg("assistant", Concat(stream.out))

\* C21: the chat request issued for a sendTextMessage carries the
\* configured model, the whole history at the send ending with the new
\* user message, the configured temperature and a token limit.
C21_RequestCarriesHistoryAndLimits ==
    [][Len(gens') > Len(gens) /\ lastOp' = "sendTextMessage" =>
         LET body == gens'[Len(gens')].body
         IN /\ body.model = config.model
            /\ body.messages = History'
            /\ body.messages[Len(body.messages)].role = "user"
            /\ body.temperature = config.temperature
            /\ "max_tokens" \in DOMAIN body]_vars

\* A call of fn has returned.
IsCall(fn) == call.pc = "returned" /\ call.fn = fn
Count(seq, x) == Cardinality({i \in 1..Len(seq) : seq[i] = x})

\* The URL-required and the model-required error of a provider kind.
UrlError(kind) ==
    CASE kind = "ollama" -> "Ollama URL is required"
      [] kind = "lmstudio" -> "LM Studio URL is required"
      [] kind = "localai" -> "LocalAI URL is required"
      [] kind = "openai" -> "OpenAI base URL is required"
      [] kind = "custom" -> "Custom URL is required"
ModelError(kind) ==
    CASE kind = "ollama" -> "Ollama model is required"
      [] kind = "lmstudio" -> "LM Studio model is required"
      [] kind = "localai" -> "LocalAI model is required"
      [] kind = "openai" -> "OpenAI model is required"
      [] kind = "custom" -> "Custom model is required"

\* The selected provider's sub-config lacks the field, or has it empty.
Missing(c, field) ==
    \/ c[c.provider] = None
    \/ c[c.provider][1][field] \in {Undefined, ""}

\* C22: for each provider kind the validator of sources/localai/config.ts
\* reports one URL-required error exactly when the selected provider's URL
\* is missing or empty, one model-required error exactly when its model
\* is, and never an error of a provider that is not selected.
C22_RequiredFieldErrors ==
    (IsCall("config.validateLocalAIConfig") /\ call.arg.provider \in AIProviderTypes) =>
        LET c == call.arg
            errors == call.result.errors
        IN /\ Count(errors, UrlError(c.provider)) = (IF Missing(c, "url") THEN 1 ELSE 0)
           /\ Count(errors, ModelError(c.provider)) = (IF Missing(c, "model") THEN 1 ELSE 0)
           /\ \A k \in AIProviderTypes \ {c.provider} :
                Count(errors, UrlError(k)) = 0 /\ Count(errors, ModelError(k)) = 0
C22_Witness ==
    /\ IsCall("config.validateLocalAIConfig")
    /\ call.arg.provider = "openai"
    /\ call.arg.openai = None
    /\ call.arg.ollama # None /\ call.arg.ollama[1].url = ""
    /\ call.result.errors = <<"OpenAI base URL is required", "OpenAI model is required">>

\* A number was supplied and is below lo or above hi (NaN is neither).
Outside(n, lo, hi) == n # None /\ ~IsNaN(n) /\ (n[1] < lo \/ n[1] > hi)

\* The rules a config violates: provider and required fields, then the
\* ranges 1000..600000 ms, 0..2, 1..100000, 512..32768 and threads >= 1.
ViolatedSources(c) ==
    {r \in {"provider", "url", "model", "timeout", "temperature", "maxTokens"} :
        \/ r = "provider" /\ c.provider \in {Undefined, ""}
        \/ r = "url" /\ c.provider \in AIProviderTypes /\ Missing(c, "url")
        \/ r = "model" /\ c.provider \in AIProviderTypes /\ Missing(c, "model")
        \/ r = "timeout" /\ Outside(c.timeout, 1000, 600000)
        \/ r = "temperature" /\ Outside(c.temperature, 0, 20)
        \/ r = "maxTokens" /\ Outside(c.maxTokens, 1, 100000)}
ViolatedSync(c) ==
    {r \in {"endpoint", "contextSize", "temperature", "threads"} :
        \/ r = "endpoint" /\ c.endpoint # Undefined /\ ~IsURL(c.endpoint)
        \/ r = "contextSize" /\ Outside(c.contextSize, 512, 32768)
        \/ r = "temperature" /\ Outside(c.temperature, 0, 20)
        \/ r = "threads" /\ Outside(c.threads, 1, 1 + c.threads[1])}

\* C23: both validators report one error for each violated rule, whatever
\* the combination, and valid is true exactly when there is no error.
C23_OneErrorPerViolatedRule ==
    /\ IsCall("config.validateLocalAIConfig") =>
         /\ Len(call.result.errors) = Cardinality(ViolatedSources(call.arg))
         /\ call.result.valid <=> call.result.errors = <<>>
    /\ IsCall("localAI.validateLocalAIConfig") =>
         /\ Len(call.result.errors) = Cardinality(ViolatedSync(call.arg))
         /\ call.result.valid <=> call.result.errors = <<>>

\* C24: the validator of sources/localai/config.ts reports a range error
\* exactly for a supplied timeout outside 1000..600000, a supplied
\* temperature outside 0..2 and a supplied maxTokens outside 1..100000.
C24_RangeErrors ==
    IsCall("config.validateLocalAIConfig") =>
        LET c == call.arg
            errors == Range(call.result.errors)
        IN /\ "Timeout must be between 1000ms and 600000ms" \in errors
                <=> Outside(c.timeout, 1000, 600000)
           /\ "Temperature must be between 0.0 and 1.0" \in errors
                <=> Outside(c.temperature, 0, 20)
           /\ "Max tokens must be between 1 and 100000" \in errors
                <=> Outside(c.maxTokens, 1, 100000)

\* C25: the validator of sync/localAI returns valid = false for every
\* supplied contextSize outside 512..32768, temperature outside 0..2 or
\* threads below 1, and valid = true when these are within bounds.
C25_SyncRanges ==
    IsCall("localAI.validateLocalAIConfig") =>
        LET c == call.arg
            outOfRange == ViolatedSync(c) \ {"endpoint"}
        IN /\ outOfRange # {} => ~call.result.valid
           /\ ViolatedSync(c) = {} => call.result.valid

\* C26: the loaded config has exactly the sub-config of its provider,
\* with the URL and model of the environment or their defaults; without
\* numeric environment variables it passes validation with the defaults.
C26_LoadedConfig ==
    IsCall("loadLocalAIConfigFromEnv") =>
        LET env == call.arg
            c == call.result
            sub == c[c.provider][1]
        IN /\ {k \in AIProviderTypes : c[k] # None} = {c.provider}
           /\ sub.url = Or(env.URL, "http://localhost:11434")
           /\ sub.model = Or(env.MODEL, "codellama:13b")
           /\ (/\ ~Truthy(env.TIMEOUT) /\ ~Truthy(env.TEMPERATURE)
               /\ ~Truthy(env.MAX_TOKENS) /\ ~Truthy(env.CONTEXT_SIZE)) =>
                 /\ validateLocalAIConfigSources(c).valid
                 /\ c.timeout = Some(30000) /\ c.temperature = Some(7)
                 /\ c.maxTokens = Some(2048) /\ c.contextSize = Some(4096)

\* C27: isModelSuitable is true exactly for a registered model whose size
\* is at most 0.7 of the memory: true at size = 0.7 * memory, false just
\* below, false for every other name.
C27_SuitableIffRegisteredAndFits ==
    IsCall("isModelSuitable") =>
        LET id == call.arg.modelName
            mem == call.arg.availableMemory
        IN call.result <=>
             /\ id \in DOMAIN SUPPORTED_MODELS
             /\ 10 * SUPPORTED_MODELS[id].size[1] <= 7 * mem
C27_Witness ==
    /\ IsCall("isModelSuitable")
    /\ call.arg = [modelName |-> "phi3", availableMemory |-> 230]
    /\ call.result = TRUE
    /\ 10 * SUPPORTED_MODELS["phi3"].size[1] = 7 * 230

\* C28: getRecommendedModel returns llama3.2:70b from 50 GiB of safe
\* memory (0.7 of the memory), llama3.2 from 8 GiB, mistral from 4 GiB and
\* phi3 below; a safe memory equal to a threshold takes the higher tier.
C28_RecommendedTiers ==
    IsCall("getRecommendedModel") =>
        LET mem == call.arg
        IN call.result =
             (IF 7 * mem >= 10 * 3500 THEN "llama3.2:70b"
              ELSE IF 7 * mem >= 10 * 560 THEN "llama3.2"
              ELSE IF 7 * mem >= 10 * 280 THEN "mistral"
              ELSE "phi3")
C28_Witness ==
    /\ IsCall("getRecommendedModel")
    /\ call.arg = 5000
    /\ call.result = "llama3.2:70b"

\* C29: below 1 GiB formatModelSize gives the MiB rounded to the nearest
\* integer, half up, with MB; from 1 GiB on the GiB with one decimal digit
\* and GB; 0 gives 0 MB and 100 GiB gives 100.0 GB.
C29_FormatModelSize ==
    IsCall("formatModelSize") =>
        LET bytes == call.arg
            r == call.result
        IN /\ bytes < 4096 =>
                /\ r.unit = "MB" /\ r.frac = None
                /\ 4 * r.whole - 2 <= bytes /\ bytes < 4 * r.whole + 2
           /\ bytes >= 4096 =>
                /\ r.unit = "GB" /\ r.frac # None /\ r.frac[1] \in 0..9
                /\ LET t == 10 * r.whole + r.frac[1]
                   IN 2 * (4096 * t - 10 * bytes) <= 4096
                      /\ 2 * (10 * bytes - 4096 * t) <= 4096
           /\ bytes = 0 => r = [whole |-> 0, frac |-> None, unit |-> "MB"]
           /\ bytes = 409600 => r = [whole |-> 100, frac |-> Some(0), unit |-> "GB"]
C29_Witness ==
    /\ IsCall("formatModelSize")
    /\ call.arg = 2
    /\ call.result = [whole |-> 1, frac |-> None, unit |-> "MB"]

\* C30: checkLocalAIModel never throws and returns true exactly when the
\* listing request got an ok response whose models list has an entry
\* named model; so it returns false on a network error, a status that is
\* not ok, an empty list and a body without models.
C30_ModelListedIffTrue ==
    (probe.pc # "idle" /\ probe.fn = "checkLocalAIModel") =>
        /\ probe.requests = <<[method |-> "GET", endpoint |-> probe.endpoint, path |-> "/api/tags"]>>
        /\ ~probe.threw
        /\ probe.pc = "returned" =>
              (probe.result <=>
                  /\ probe.response.kind = "response"
                  /\ probe.response.status \in 200..299
                  /\ probe.body.json /\ probe.body.hasModels
                  /\ \E i \in 1..Len(probe.body.names) : probe.body.names[i] = probe.model)
C30_Witness ==
    /\ probe.pc = "returned"
    /\ probe.fn = "checkLocalAIModel"
    /\ probe.model = "llama3.2"
    /\ probe.body.names = <<"codellama", "llama3.2">>
    /\ probe.result = TRUE

\* h is a prefix of g: same message objects with the same values.
IsPrefix(h, g) == Len(h) <= Len(g) /\ SubSeq(g, 1, Len(h)) = h

\* C31: every step other than endSession leaves the previous history as a
\* prefix of the new one: no message is removed, reordered or rewritten.
C31_HistoryAppendOnly ==
    [][lastOp' # "endSession" => IsPrefix(conversationHistory, conversationHistory')]_vars

\* C32: a startSession whose probe was pending when endSession ran does
\* not connect the session or add its seed message; stated for the step
\* that follows endSession, where the call that resumes was made before it.
C32_EndedStaysDisconnected ==
    [][(lastOp = "endSession" /\ lastOp' = "startSession:resolved") =>
          (status' = "disconnected" /\ conversationHistory' = conversationHistory)]_vars

\* C33: whenever the status is 'disconnected' the history is empty.
C33_DisconnectedHistoryEmpty ==
    status = "disconnected" => conversationHistory = <<>>

\* C34: replies are appended in the order of their sendTextMessage calls:
\* the reply of call i is never appended after the reply of a later call
\* j, both made since the last endSession, is in the history.
C34_RepliesInSendOrder ==
    [][\A i, j \in 1..Len(gens) :
          (i < j /\ ended < i /\ gens[j].pc = "resolved") => ~Appends(i)]_vars

\* The place of an error in the validation order: required fields of the
\* provider, timeout, temperature, maxTokens, contextSize, thread count.
Rank(error) ==
    CASE error = "Timeout must be between 1000ms and 600000ms" -> 2
      [] error \in {"Temperature must be between 0.0 and 1.0",
                    "Temperature must be between 0 and 2"} -> 3
      [] error = "Max tokens must be between 1 and 100000" -> 4
      [] error = "Context size must be between 512 and 32768" -> 5
      [] error = "Threads must be at least 1" -> 6
      [] OTHER -> 1

\* C35: in the result of either validator any two errors are in the
\* validation order.
C35_ErrorsInValidationOrder ==
    (IsCall("config.validateLocalAIConfig") \/ IsCall("localAI.validateLocalAIConfig")) =>
        \A i, j \in 1..Len(call.result.errors) :
            i < j => Rank(call.result.errors[i]) <= Rank(call.result.errors[j])

\* C36: a config the validator of sources/localai/config.ts accepts has
\* the sub-config of its provider, with a non-empty URL and model.
C36_ValidHasProviderSubConfig ==
    (IsCall("config.validateLocalAIConfig") /\ call.result.valid) =>
        /\ call.arg.provider \in AIProviderTypes
        /\ ~Missing(call.arg, "url")
        /\ ~Missing(call.arg, "model")

\* C37: the recommended model is registered and suitable for the memory it
\* was recommended for; stated for the memories some registered model is
\* suitable for.
C37_RecommendedIsSuitable ==
    (/\ IsCall("getRecommendedModel")
     /\ \E m \in DOMAIN SUPPORTED_MODELS : isModelSuitable(m, call.arg)) =>
        /\ call.result \in DOMAIN SUPPORTED_MODELS
        /\ isModelSuitable(call.result, call.arg)
====
